---- MODULE Spec2Model ----
(***************************************************************************)
(* Model of bank/bank.py: Transaction and Account.                         *)
(*                                                                         *)
(* Spec          every public Account operation as one atomic step (each   *)
(*               runs wholly inside `with self.__lock`), inputs drawn from *)
(*               small sets, negative amounts and unknown ids included.    *)
(* SpecAuthorize NThreads threads calling Account.authorize concurrently,  *)
(*               one step per statement, serialised by Account.__lock.     *)
(* SpecThreads   NThreads threads each making one call of any operation,   *)
(*               one step per statement, serialised by Account.__lock.     *)
(***************************************************************************)
EXTENDS Integers, Sequences, FiniteSets

VARIABLES
    balance,            \* Account.__balance
    authorized_amount,  \* Account.__authorized_amount
    heap,               \* every Transaction object constructed so far
    transactions,       \* Account.__transactions: id -> reference into heap
    result,             \* the last call: operation, arguments, outcome
    calls,              \* number of calls made so far
    lock,               \* Account.__lock: 0 when free, else the holder
    pc,                 \* each thread's position in its call
    t_op,               \* the operation each thread calls
    t_id,               \* each thread's transaction_id argument
    t_amount,           \* each thread's amount argument
    t_seen,             \* the value each authorize compared or read returned
    t_err,              \* each thread's outcome
    order               \* the threads in the order they took the lock

vars == <<balance, authorized_amount, heap, transactions, result, calls,
          lock, pc, t_op, t_id, t_amount, t_seen, t_err, order>>

account == <<balance, authorized_amount, heap, transactions>>
threads == <<lock, pc, t_op, t_id, t_amount, t_seen, t_err, order>>
t_call == <<t_op, t_id, t_amount>>

\* ------------------------------------------------------------- bounds
MaxAmount == 2
MaxInitialBalance == 2
MaxCalls == 5
NThreads == 3

\* Amounts a caller passes: a negative one, zero, one, and the largest.
Amounts == {-1, 0, 1, MaxAmount}
Threads == 1 .. NThreads

\* ------------------------------------------------------------- values
\* Transaction.id has the class-level default uuid4(): it is evaluated once,
\* when the class body runs, and Account.__add_transaction never passes an
\* id, so every Transaction carries this one value.
Transaction_id == "uuid0"
\* Ids a caller can present: the one issued, and one never issued.
Ids == {Transaction_id, "uuid1"}

AUTHORIZED == "authorized"
CANCELLED == "cancelled"

OK == "ok"

RECURSIVE Sum(_)
Sum(s) == IF s = <<>> THEN 0 ELSE Head(s) + Sum(Tail(s))

\* ------------------------------------------------------------- Transaction
is_authorized(tx) == tx.status = AUTHORIZED
is_cancelled(tx) == tx.status = CANCELLED
has_captures(tx) == Len(tx.captures) > 0

Transaction_capture_unchecked(tx, amount) ==
    IF ~is_authorized(tx)
    THEN [err |-> "CaptureNotAuthorized", tx |-> tx]
    ELSE [err |-> OK, tx |-> [tx EXCEPT !.captures = Append(@, amount)]]

Transaction_capture(tx, amount) ==
    IF ~is_authorized(tx)
    THEN [err |-> "CaptureNotAuthorized", tx |-> tx]
    ELSE LET captured_amount == Sum(tx.captures) IN
         IF captured_amount + amount > tx.amount
         THEN [err |-> "CannotCaptureMoreThanAuthorized", tx |-> tx]
         ELSE [err |-> OK, tx |-> [tx EXCEPT !.captures = Append(@, amount)]]

Transaction_cancel_captured(tx) ==
    IF is_cancelled(tx)
    THEN [err |-> OK, tx |-> tx]
    ELSE IF ~is_authorized(tx)
    THEN [err |-> "CancelationNotAuthorized", tx |-> tx]
    ELSE [err |-> OK, tx |-> [tx EXCEPT !.status = CANCELLED]]

Transaction_cancel(tx) ==
    IF is_cancelled(tx)
    THEN [err |-> OK, tx |-> tx]
    ELSE IF ~is_authorized(tx)
    THEN [err |-> "CancelationNotAuthorized", tx |-> tx]
    ELSE IF has_captures(tx)
    THEN [err |-> "CannotCancelCapturedTransaction", tx |-> tx]
    ELSE [err |-> OK, tx |-> [tx EXCEPT !.status = CANCELLED]]

Transaction_refund(tx, amount) ==
    LET captured_amount == Sum(tx.captures)
        refunded_amount == Sum(tx.refunds)
    IN IF refunded_amount + amount > captured_amount
       THEN [err |-> "CannotRefundMoreThanCaptured", tx |-> tx]
       ELSE [err |-> OK, tx |-> [tx EXCEPT !.refunds = Append(@, amount)]]

\* ------------------------------------------------------------- Account helpers
Account_reduce_hold_kept(held, amount) ==
    IF held < amount
    THEN [err |-> "InsufficientFundsError", authorized_amount |-> held]
    ELSE [err |-> OK, authorized_amount |-> held]

Account_reduce_hold(held, amount) ==
    IF held < amount
    THEN [err |-> "InsufficientFundsError", authorized_amount |-> held]
    ELSE [err |-> OK, authorized_amount |-> held - amount]

Account_authorize_amount_overdrawn(bal, held, amount) ==
    IF amount < 0
    THEN [err |-> "InvalidAmountError", balance |-> bal, authorized_amount |-> held]
    ELSE [err |-> OK, balance |-> bal - amount, authorized_amount |-> held + amount]

Account_authorize_amount(bal, held, amount) ==
    IF amount < 0
    THEN [err |-> "InvalidAmountError", balance |-> bal, authorized_amount |-> held]
    ELSE IF bal >= amount
    THEN [err |-> OK, balance |-> bal - amount, authorized_amount |-> held + amount]
    ELSE [err |-> "InsufficientFundsError", balance |-> bal, authorized_amount |-> held]

\* Transaction(amount=amount, status=Status.AUTHORIZED, ...): the id is the
\* class default, the private lists start empty.
NewTransaction(amount) ==
    [id |-> Transaction_id, amount |-> amount, status |-> AUTHORIZED,
     captures |-> <<>>, refunds |-> <<>>]

\* self.__transactions[transaction.id] = transaction
Account_add_transaction(h, txs, amount) ==
    LET transaction == NewTransaction(amount)
        ref == Len(h) + 1
    IN [heap |-> Append(h, transaction),
        transactions |-> [k \in DOMAIN txs \cup {transaction.id} |->
                             IF k = transaction.id THEN ref ELSE txs[k]],
        id |-> transaction.id]

\* ------------------------------------------------------------- the calls
NoId == "none"

\* What the caller of an operation observes: the call, its error or return
\* value, balance() and authorized_amount() read just before it, and whether
\* the call presents the id that the call just before it returned.
Call(op, id, amount, err, ret) ==
    [op |-> op, id |-> id, amount |-> amount, err |-> err, ret |-> ret,
     balance |-> balance, authorized_amount |-> authorized_amount,
     follows |-> (id # NoId /\ result.ret = id)]

NoCall == [op |-> "init", id |-> NoId, amount |-> 0, err |-> OK, ret |-> NoId,
           balance |-> 0, authorized_amount |-> 0, follows |-> FALSE]

Returns(call) ==
    /\ calls < MaxCalls
    /\ result' = call
    /\ calls' = calls + 1
    /\ UNCHANGED threads

Account_deposit(amount) ==
    /\ IF amount < 0
       THEN /\ Returns(Call("deposit", NoId, amount, "InvalidAmountError", NoId))
            /\ UNCHANGED account
       ELSE /\ balance' = balance + amount
            /\ Returns(Call("deposit", NoId, amount, OK, NoId))
            /\ UNCHANGED <<authorized_amount, heap, transactions>>

Account_withdraw_strict(amount) ==
    /\ IF amount < 0
       THEN /\ Returns(Call("withdraw", NoId, amount, "InvalidAmountError", NoId))
            /\ UNCHANGED account
       ELSE IF balance <= amount
       THEN /\ Returns(Call("withdraw", NoId, amount, "InsufficientFundsError", NoId))
            /\ UNCHANGED account
       ELSE /\ balance' = balance - amount
            /\ Returns(Call("withdraw", NoId, amount, OK, NoId))
            /\ UNCHANGED <<authorized_amount, heap, transactions>>

Account_withdraw(amount) ==
    /\ IF amount < 0
       THEN /\ Returns(Call("withdraw", NoId, amount, "InvalidAmountError", NoId))
            /\ UNCHANGED account
       ELSE IF balance < amount
       THEN /\ Returns(Call("withdraw", NoId, amount, "InsufficientFundsError", NoId))
            /\ UNCHANGED account
       ELSE /\ balance' = balance - amount
            /\ Returns(Call("withdraw", NoId, amount, OK, NoId))
            /\ UNCHANGED <<authorized_amount, heap, transactions>>

Account_authorize(amount) ==
    LET a == Account_authorize_amount(balance, authorized_amount, amount) IN
    IF a.err # OK
    THEN /\ Returns(Call("authorize", NoId, amount, a.err, NoId))
         /\ UNCHANGED account
    ELSE LET t == Account_add_transaction(heap, transactions, amount) IN
         /\ balance' = a.balance
         /\ authorized_amount' = a.authorized_amount
         /\ heap' = t.heap
         /\ transactions' = t.transactions
         /\ Returns(Call("authorize", NoId, amount, OK, t.id))

Account_capture(transaction_id, amount) ==
    IF transaction_id \notin DOMAIN transactions
    THEN /\ Returns(Call("capture", transaction_id, amount, "KeyError", NoId))
         /\ UNCHANGED account
    ELSE LET ref == transactions[transaction_id]
             c == Transaction_capture(heap[ref], amount)
         IN IF c.err # OK
            THEN /\ Returns(Call("capture", transaction_id, amount, c.err, NoId))
                 /\ UNCHANGED account
            ELSE LET r == Account_reduce_hold(authorized_amount, amount) IN
                 \* the Capture is appended before __reduce_hold runs
                 /\ heap' = [heap EXCEPT ![ref] = c.tx]
                 /\ authorized_amount' = r.authorized_amount
                 /\ Returns(Call("capture", transaction_id, amount, r.err, NoId))
                 /\ UNCHANGED <<balance, transactions>>

Account_cancel_no_release(transaction_id) ==
    IF transaction_id \notin DOMAIN transactions
    THEN /\ Returns(Call("cancel", transaction_id, 0, "KeyError", NoId))
         /\ UNCHANGED account
    ELSE LET ref == transactions[transaction_id]
             c == Transaction_cancel(heap[ref])
         IN IF c.err # OK
            THEN /\ Returns(Call("cancel", transaction_id, 0, c.err, NoId))
                 /\ UNCHANGED account
            ELSE /\ heap' = [heap EXCEPT ![ref] = c.tx]
                 /\ authorized_amount' = authorized_amount - c.tx.amount
                 /\ Returns(Call("cancel", transaction_id, 0, OK, NoId))
                 /\ UNCHANGED <<balance, transactions>>

Account_cancel(transaction_id) ==
    IF transaction_id \notin DOMAIN transactions
    THEN /\ Returns(Call("cancel", transaction_id, 0, "KeyError", NoId))
         /\ UNCHANGED account
    ELSE LET ref == transactions[transaction_id]
             c == Transaction_cancel(heap[ref])
         IN IF c.err # OK
            THEN /\ Returns(Call("cancel", transaction_id, 0, c.err, NoId))
                 /\ UNCHANGED account
            ELSE \* runs whenever Transaction.cancel returns, also when it
                 \* returned early because the transaction was cancelled
                 /\ heap' = [heap EXCEPT ![ref] = c.tx]
                 /\ balance' = balance + c.tx.amount
                 /\ authorized_amount' = authorized_amount - c.tx.amount
                 /\ Returns(Call("cancel", transaction_id, 0, OK, NoId))
                 /\ UNCHANGED transactions

Account_refund(transaction_id, amount) ==
    IF transaction_id \notin DOMAIN transactions
    THEN /\ Returns(Call("refund", transaction_id, amount, "KeyError", NoId))
         /\ UNCHANGED account
    ELSE LET ref == transactions[transaction_id]
             c == Transaction_refund(heap[ref], amount)
         IN IF c.err # OK
            THEN /\ Returns(Call("refund", transaction_id, amount, c.err, NoId))
                 /\ UNCHANGED account
            ELSE /\ heap' = [heap EXCEPT ![ref] = c.tx]
                 /\ balance' = balance + amount
                 /\ Returns(Call("refund", transaction_id, amount, OK, NoId))
                 /\ UNCHANGED <<authorized_amount, transactions>>

\* ------------------------------------------------------------- Spec
\* The transaction an id addresses, when the id is known.
Addressed(id) == heap[transactions[id]]
Known(id) == id \in DOMAIN transactions

Deposit == \E amount \in Amounts : Account_deposit(amount)

Withdraw == \E amount \in Amounts : Account_withdraw(amount)

Authorize == \E amount \in Amounts : Account_authorize(amount)

Capture == \E id \in Ids, amount \in Amounts : Account_capture(id, amount)

Cancel == \E id \in Ids : Account_cancel(id)

Refund == \E id \in Ids, amount \in Amounts : Account_refund(id, amount)

NoThreads ==
    /\ lock = 0
    /\ pc = [t \in Threads |-> "idle"]
    /\ t_op = [t \in Threads |-> "none"]
    /\ t_id = [t \in Threads |-> NoId]
    /\ t_amount = [t \in Threads |-> 0]
    /\ t_seen = [t \in Threads |-> 0]
    /\ t_err = [t \in Threads |-> OK]
    /\ order = <<>>

\* Account(balance): no hold, no transactions.
Init ==
    /\ balance \in 0 .. MaxInitialBalance
    /\ authorized_amount = 0
    /\ heap = <<>>
    /\ transactions = <<>>
    /\ result = NoCall
    /\ calls = 0
    /\ NoThreads

Next ==
    \/ Deposit
    \/ Withdraw
    \/ Authorize
    \/ Capture
    \/ Cancel
    \/ Refund

Spec == Init /\ [][Next]_vars

\* ------------------------------------------------------------- SpecAuthorize
\* Threads that each call Account.authorize(t_amount[t]) once, a step per
\* statement.  result keeps the balance read before the threads start.
Goto(t, label) == pc' = [pc EXCEPT ![t] = label]

\* The first statement inside `with self.__lock:` of each operation.
Entry(op) ==
    CASE op = "authorize" -> "authorize_amount"
      [] op = "deposit" -> "deposit"
      [] op = "withdraw" -> "withdraw"
      [] op = "balance" -> "balance"
      [] op = "authorized_amount" -> "authorized_amount"
      [] OTHER -> "lookup"

\* `with self.__lock:` on entry
Lock_acquire_unguarded(t) ==
    /\ pc[t] = "call"
    /\ lock' = t
    /\ Goto(t, Entry(t_op[t]))
    /\ order' = Append(order, t)
    /\ UNCHANGED <<account, result, calls, t_call, t_seen, t_err>>

Lock_acquire(t) ==
    /\ pc[t] = "call"
    /\ lock = 0
    /\ lock' = t
    /\ Goto(t, Entry(t_op[t]))
    /\ order' = Append(order, t)
    /\ UNCHANGED <<account, result, calls, t_call, t_seen, t_err>>

\* __authorize_amount: the two comparisons
Authorize_check(t) ==
    /\ pc[t] = "authorize_amount"
    /\ t_seen' = [t_seen EXCEPT ![t] = balance]
    /\ IF t_amount[t] < 0
       THEN /\ t_err' = [t_err EXCEPT ![t] = "InvalidAmountError"]
            /\ Goto(t, "release")
       ELSE IF balance >= t_amount[t]
       THEN /\ Goto(t, "debit")
            /\ UNCHANGED t_err
       ELSE /\ t_err' = [t_err EXCEPT ![t] = "InsufficientFundsError"]
            /\ Goto(t, "release")
    /\ UNCHANGED <<account, result, calls, lock, t_call, order>>

\* self.__balance -= amount
Authorize_debit(t) ==
    /\ pc[t] = "debit"
    /\ balance' = balance - t_amount[t]
    /\ Goto(t, "hold")
    /\ UNCHANGED <<authorized_amount, heap, transactions, result, calls,
                   lock, t_call, t_seen, t_err, order>>

\* self.__authorized_amount += amount
Authorize_hold(t) ==
    /\ pc[t] = "hold"
    /\ authorized_amount' = authorized_amount + t_amount[t]
    /\ Goto(t, "add_transaction")
    /\ UNCHANGED <<balance, heap, transactions, result, calls,
                   lock, t_call, t_seen, t_err, order>>

\* return self.__add_transaction(amount).id
Authorize_add_transaction(t) ==
    /\ pc[t] = "add_transaction"
    /\ LET n == Account_add_transaction(heap, transactions, t_amount[t]) IN
       /\ heap' = n.heap
       /\ transactions' = n.transactions
    /\ t_err' = [t_err EXCEPT ![t] = OK]
    /\ Goto(t, "release")
    /\ UNCHANGED <<balance, authorized_amount, result, calls,
                   lock, t_call, t_seen, order>>

Lock_release_on_return(t) ==
    /\ pc[t] = "release"
    /\ lock' = IF t_err[t] = OK THEN 0 ELSE lock
    /\ Goto(t, "done")
    /\ UNCHANGED <<account, result, calls, t_call, t_seen, t_err, order>>

\* `with self.__lock:` on exit, normal or by exception
Lock_release(t) ==
    /\ pc[t] = "release"
    /\ lock' = 0
    /\ Goto(t, "done")
    /\ UNCHANGED <<account, result, calls, t_call, t_seen, t_err, order>>

InitAuthorize ==
    /\ balance \in 0 .. MaxInitialBalance
    /\ authorized_amount = 0
    /\ heap = <<>>
    /\ transactions = <<>>
    /\ result = [NoCall EXCEPT !.balance = balance]
    /\ calls = 0
    /\ lock = 0
    /\ pc = [t \in Threads |-> "call"]
    /\ t_op = [t \in Threads |-> "authorize"]
    /\ t_id = [t \in Threads |-> NoId]
    /\ t_amount \in [Threads -> 0 .. MaxAmount]
    /\ t_seen = [t \in Threads |-> 0]
    /\ t_err = [t \in Threads |-> "pending"]
    /\ order = <<>>

Acquire == \E t \in Threads : Lock_acquire(t)
Check == \E t \in Threads : Authorize_check(t)
Debit == \E t \in Threads : Authorize_debit(t)
Hold == \E t \in Threads : Authorize_hold(t)
AddTransaction == \E t \in Threads : Authorize_add_transaction(t)
Release == \E t \in Threads : Lock_release(t)

NextAuthorize ==
    \/ Acquire
    \/ Check
    \/ Debit
    \/ Hold
    \/ AddTransaction
    \/ Release

SpecAuthorize == InitAuthorize /\ [][NextAuthorize]_vars

\* ------------------------------------------------------------- SpecThreads
\* Threads that each make one call, t_op[t](t_id[t], t_amount[t]), a step per
\* statement.  An exception leaves the `with` block through Lock_release.
Raise(t, err) ==
    /\ t_err' = [t_err EXCEPT ![t] = err]
    /\ Goto(t, "release")

Return(t) ==
    /\ t_err' = [t_err EXCEPT ![t] = OK]
    /\ Goto(t, "release")

\* deposit: if amount < 0: raise InvalidAmountError()
Deposit_check(t) ==
    /\ pc[t] = "deposit"
    /\ IF t_amount[t] < 0
       THEN Raise(t, "InvalidAmountError")
       ELSE Goto(t, "deposit_credit") /\ UNCHANGED t_err
    /\ UNCHANGED <<account, result, calls, lock, t_call, t_seen, order>>

\* deposit: self.__balance += amount
Deposit_credit(t) ==
    /\ pc[t] = "deposit_credit"
    /\ balance' = balance + t_amount[t]
    /\ Return(t)
    /\ UNCHANGED <<authorized_amount, heap, transactions, result, calls,
                   lock, t_call, t_seen, order>>

\* withdraw: the two comparisons
Withdraw_check(t) ==
    /\ pc[t] = "withdraw"
    /\ IF t_amount[t] < 0
       THEN Raise(t, "InvalidAmountError")
       ELSE IF balance < t_amount[t]
       THEN Raise(t, "InsufficientFundsError")
       ELSE Goto(t, "withdraw_debit") /\ UNCHANGED t_err
    /\ UNCHANGED <<account, result, calls, lock, t_call, t_seen, order>>

\* withdraw: self.__balance -= amount
Withdraw_debit(t) ==
    /\ pc[t] = "withdraw_debit"
    /\ balance' = balance - t_amount[t]
    /\ Return(t)
    /\ UNCHANGED <<authorized_amount, heap, transactions, result, calls,
                   lock, t_call, t_seen, order>>

\* capture, cancel, refund: authorization = self.__transactions[transaction_id]
Lookup(t) ==
    /\ pc[t] = "lookup"
    /\ IF ~Known(t_id[t])
       THEN Raise(t, "KeyError")
       ELSE Goto(t, t_op[t]) /\ UNCHANGED t_err
    /\ UNCHANGED <<account, result, calls, lock, t_call, t_seen, order>>

\* capture: authorization.capture(amount)
Capture_transaction(t) ==
    /\ pc[t] = "capture"
    /\ LET c == Transaction_capture(Addressed(t_id[t]), t_amount[t]) IN
       IF c.err # OK
       THEN Raise(t, c.err) /\ UNCHANGED heap
       ELSE /\ heap' = [heap EXCEPT ![transactions[t_id[t]]] = c.tx]
            /\ Goto(t, "reduce_hold")
            /\ UNCHANGED t_err
    /\ UNCHANGED <<balance, authorized_amount, transactions, result, calls,
                   lock, t_call, t_seen, order>>

\* capture: self.__reduce_hold(amount)
Capture_reduce_hold(t) ==
    /\ pc[t] = "reduce_hold"
    /\ LET r == Account_reduce_hold(authorized_amount, t_amount[t]) IN
       /\ authorized_amount' = r.authorized_amount
       /\ IF r.err # OK THEN Raise(t, r.err) ELSE Return(t)
    /\ UNCHANGED <<balance, heap, transactions, result, calls,
                   lock, t_call, t_seen, order>>

\* cancel: authorization.cancel()
Cancel_transaction(t) ==
    /\ pc[t] = "cancel"
    /\ LET c == Transaction_cancel(Addressed(t_id[t])) IN
       IF c.err # OK
       THEN Raise(t, c.err) /\ UNCHANGED heap
       ELSE /\ heap' = [heap EXCEPT ![transactions[t_id[t]]] = c.tx]
            /\ Goto(t, "cancel_credit")
            /\ UNCHANGED t_err
    /\ UNCHANGED <<balance, authorized_amount, transactions, result, calls,
                   lock, t_call, t_seen, order>>

\* cancel: self.__balance += authorization.amount
Cancel_credit(t) ==
    /\ pc[t] = "cancel_credit"
    /\ balance' = balance + Addressed(t_id[t]).amount
    /\ Goto(t, "cancel_release")
    /\ UNCHANGED <<authorized_amount, heap, transactions, result, calls,
                   lock, t_call, t_seen, t_err, order>>

\* cancel: self.__authorized_amount -= authorization.amount
Cancel_release(t) ==
    /\ pc[t] = "cancel_release"
    /\ authorized_amount' = authorized_amount - Addressed(t_id[t]).amount
    /\ Return(t)
    /\ UNCHANGED <<balance, heap, transactions, result, calls,
                   lock, t_call, t_seen, order>>

\* refund: authorization.refund(amount)
Refund_transaction(t) ==
    /\ pc[t] = "refund"
    /\ LET c == Transaction_refund(Addressed(t_id[t]), t_amount[t]) IN
       IF c.err # OK
       THEN Raise(t, c.err) /\ UNCHANGED heap
       ELSE /\ heap' = [heap EXCEPT ![transactions[t_id[t]]] = c.tx]
            /\ Goto(t, "refund_credit")
            /\ UNCHANGED t_err
    /\ UNCHANGED <<balance, authorized_amount, transactions, result, calls,
                   lock, t_call, t_seen, order>>

\* refund: self.__balance += amount
Refund_credit(t) ==
    /\ pc[t] = "refund_credit"
    /\ balance' = balance + t_amount[t]
    /\ Return(t)
    /\ UNCHANGED <<authorized_amount, heap, transactions, result, calls,
                   lock, t_call, t_seen, order>>

\* balance(): return self.__balance
Read_balance(t) ==
    /\ pc[t] = "balance"
    /\ t_seen' = [t_seen EXCEPT ![t] = balance]
    /\ Return(t)
    /\ UNCHANGED <<account, result, calls, lock, t_call, order>>

\* authorized_amount(): return self.__authorized_amount
Read_authorized_amount(t) ==
    /\ pc[t] = "authorized_amount"
    /\ t_seen' = [t_seen EXCEPT ![t] = authorized_amount]
    /\ Return(t)
    /\ UNCHANGED <<account, result, calls, lock, t_call, order>>

\* The calls a thread may make: every operation, with an accepted and a
\* rejected argument where it validates one, a known and an unknown id.
ThreadCalls ==
    <<[op |-> "deposit", id |-> NoId, amount |-> 1],
     [op |-> "deposit", id |-> NoId, amount |-> -1],
     [op |-> "withdraw", id |-> NoId, amount |-> 1],
     [op |-> "authorize", id |-> NoId, amount |-> 1],
     [op |-> "capture", id |-> Transaction_id, amount |-> 1],
     [op |-> "cancel", id |-> Transaction_id, amount |-> 0],
     [op |-> "refund", id |-> Transaction_id, amount |-> 1],
     [op |-> "cancel", id |-> "uuid1", amount |-> 0],
     [op |-> "balance", id |-> NoId, amount |-> 0],
     [op |-> "authorized_amount", id |-> NoId, amount |-> 0]>>

\* Threads are interchangeable: which thread makes which call is fixed up to
\* a renaming of the threads, the order in which they run is not.
CallChoices ==
    {c \in [Threads -> DOMAIN ThreadCalls] :
        \A t \in Threads, u \in Threads : t < u => c[t] <= c[u]}

InitThreads ==
    /\ balance \in 0 .. MaxInitialBalance
    /\ authorized_amount = 0
    /\ heap = <<>>
    /\ transactions = <<>>
    /\ result = [NoCall EXCEPT !.balance = balance]
    /\ calls = 0
    /\ lock = 0
    /\ pc = [t \in Threads |-> "call"]
    /\ \E c \in CallChoices :
          /\ t_op = [t \in Threads |-> ThreadCalls[c[t]].op]
          /\ t_id = [t \in Threads |-> ThreadCalls[c[t]].id]
          /\ t_amount = [t \in Threads |-> ThreadCalls[c[t]].amount]
    /\ t_seen = [t \in Threads |-> 0]
    /\ t_err = [t \in Threads |-> "pending"]
    /\ order = <<>>

DepositCheck == \E t \in Threads : Deposit_check(t)
DepositCredit == \E t \in Threads : Deposit_credit(t)
WithdrawCheck == \E t \in Threads : Withdraw_check(t)
WithdrawDebit == \E t \in Threads : Withdraw_debit(t)
LookupTransaction == \E t \in Threads : Lookup(t)
CaptureTransaction == \E t \in Threads : Capture_transaction(t)
CaptureReduceHold == \E t \in Threads : Capture_reduce_hold(t)
CancelTransaction == \E t \in Threads : Cancel_transaction(t)
CancelCredit == \E t \in Threads : Cancel_credit(t)
CancelRelease == \E t \in Threads : Cancel_release(t)
RefundTransaction == \E t \in Threads : Refund_transaction(t)
RefundCredit == \E t \in Threads : Refund_credit(t)
ReadBalance == \E t \in Threads : Read_balance(t)
ReadAuthorizedAmount == \E t \in Threads : Read_authorized_amount(t)

NextThreads ==
    \/ Acquire
    \/ Check
    \/ Debit
    \/ Hold
    \/ AddTransaction
    \/ DepositCheck
    \/ DepositCredit
    \/ WithdrawCheck
    \/ WithdrawDebit
    \/ LookupTransaction
    \/ CaptureTransaction
    \/ CaptureReduceHold
    \/ CancelTransaction
    \/ CancelCredit
    \/ CancelRelease
    \/ RefundTransaction
    \/ RefundCredit
    \/ ReadBalance
    \/ ReadAuthorizedAmount
    \/ Release

SpecThreads == InitThreads /\ [][NextThreads]_vars

\* ------------------------------------------------------------- properties
\* A step of Spec is one call; these name the call made in the step.
CallMade == calls' # calls
CallFailed == CallMade /\ result'.err # OK
CallOn(op) == /\ CallMade
              /\ result'.op = op
              /\ Known(result'.id)

Refs == 1 .. Len(heap)
Captured(tx) == Sum(tx.captures)
Refunded(tx) == Sum(tx.refunds)

RECURSIVE HeldBy(_)
\* The holds of the Authorized transactions of h, captures taken off.
HeldBy(h) ==
    IF h = <<>> THEN 0
    ELSE (IF is_authorized(Head(h)) THEN Head(h).amount - Captured(Head(h)) ELSE 0)
         + HeldBy(Tail(h))

\* C1: balance() >= 0 and authorized_amount() >= 0 in every reachable state.
C1_NonNegative == balance >= 0 /\ authorized_amount >= 0

\* C2: cancel of a transaction that is already Cancelled raises nothing and
\* changes neither balance, authorized_amount nor the transaction.
C2_CancelCancelledIsNoOp ==
    [][(CallOn("cancel") /\ is_cancelled(Addressed(result'.id)))
         => (result'.err = OK /\ UNCHANGED account)]_vars

\* C3: a call that fails leaves balance, authorized_amount and every
\* transaction (status, captures, refunds) as they were before the call.
C3_FailureCommitsNothing ==
    [][CallFailed => UNCHANGED account]_vars

\* C4, as stated: captures never sum to more than the authorized amount, and
\* any capture that would push them above it fails with
\* CannotCaptureMoreThanAuthorized and changes nothing.
C4_OverCaptureAlwaysCannotCapture ==
    [][/\ \A i \in 1 .. Len(heap') : Captured(heap'[i]) <= heap'[i].amount
       /\ (CallOn("capture")
           /\ Captured(Addressed(result'.id)) + result'.amount
                > Addressed(result'.id).amount)
          => (result'.err = "CannotCaptureMoreThanAuthorized"
              /\ UNCHANGED account)]_vars

\* C4, amended: captures never sum to more than the authorized amount, and a
\* capture on an Authorized transaction that would push them above it fails
\* with CannotCaptureMoreThanAuthorized and changes nothing.
C4_OverCaptureRejected ==
    [][/\ \A i \in 1 .. Len(heap') : Captured(heap'[i]) <= heap'[i].amount
       /\ (CallOn("capture")
           /\ is_authorized(Addressed(result'.id))
           /\ Captured(Addressed(result'.id)) + result'.amount
                > Addressed(result'.id).amount)
          => (result'.err = "CannotCaptureMoreThanAuthorized"
              /\ UNCHANGED account)]_vars

\* C4 witness: a capture within the authorized amount on its own was refused
\* because of the captures already recorded.
C4_Witness ==
    /\ result.op = "capture"
    /\ result.err = "CannotCaptureMoreThanAuthorized"
    /\ has_captures(Addressed(result.id))
    /\ result.amount <= Addressed(result.id).amount

\* C5: refunds never sum to more than the captures, and a refund that would
\* push them above the captures fails with CannotRefundMoreThanCaptured and
\* changes neither balance nor the refunds.
C5_RefundsWithinCaptures ==
    [][/\ \A i \in 1 .. Len(heap') : Refunded(heap'[i]) <= Captured(heap'[i])
       /\ (CallOn("refund")
           /\ Refunded(Addressed(result'.id)) + result'.amount
                > Captured(Addressed(result'.id)))
          => (result'.err = "CannotRefundMoreThanCaptured"
              /\ UNCHANGED account)]_vars

\* C6: when all the concurrent authorize calls have returned, the accepted
\* amounts sum to at most the initial balance, authorized_amount is that sum,
\* balance is the initial balance less that sum, and every rejected call
\* compared its amount with a balance that was too small: the initial balance
\* less the amounts of some of the accepted calls.
Accepted == {t \in Threads : t_err[t] = OK}

RECURSIVE Total(_)
Total(S) ==
    IF S = {} THEN 0
    ELSE LET t == CHOOSE x \in S : TRUE IN t_amount[t] + Total(S \ {t})

AllReturned == \A t \in Threads : pc[t] = "done"

C6_NoOvershoot ==
    AllReturned =>
        /\ Total(Accepted) <= result.balance
        /\ authorized_amount = Total(Accepted)
        /\ balance = result.balance - Total(Accepted)
        /\ \A t \in Threads \ Accepted :
              /\ t_err[t] = "InsufficientFundsError"
              /\ t_seen[t] < t_amount[t]
              /\ \E S \in SUBSET Accepted : t_seen[t] = result.balance - Total(S)

\* C6 witness: the amounts sum to more than the balance, one call was
\* accepted and another rejected after it.
C6_Witness ==
    /\ AllReturned
    /\ Total(Threads) > result.balance
    /\ \E t \in Accepted : t_amount[t] > 0
    /\ \E t \in Threads \ Accepted : t_seen[t] < result.balance

\* C7: authorized_amount is the sum, over the transactions the account has
\* authorized that are still Authorized, of amount less captures.
C7_HoldIsSumOfOpenHolds == authorized_amount = HeldBy(heap)

\* C8: a successful authorize returns an id no earlier transaction has, and
\* every earlier id still addresses the transaction it addressed before.
C8_FreshIdAndRetention ==
    [][(CallMade /\ result'.op = "authorize" /\ result'.err = OK)
         => /\ \A i \in Refs : heap[i].id # result'.ret
            /\ \A id \in DOMAIN transactions :
                  /\ id \in DOMAIN transactions'
                  /\ transactions'[id] = transactions[id]]_vars

\* C9: a cancel of the id that the authorize just before it returned succeeds
\* and leaves balance and authorized_amount as they were before the authorize.
C9_AuthorizeCancelRoundTrip ==
    [][(/\ result.op = "authorize"
        /\ result.err = OK
        /\ CallMade
        /\ result'.op = "cancel"
        /\ result'.id = result.ret)
         => /\ result'.err = OK
            /\ balance' = result.balance
            /\ authorized_amount' = result.authorized_amount]_vars

\* C9 witness: a positive amount was authorized and cancelled at once, on an
\* account that already had a hold.
C9_Witness ==
    /\ result.op = "cancel"
    /\ result.err = OK
    /\ result.follows
    /\ Addressed(result.id).amount > 0
    /\ authorized_amount # 0

\* C10: a transaction becomes Cancelled only from Authorized with no
\* captures, a Cancelled transaction stays Cancelled, and cancel of an
\* Authorized transaction that has a capture fails with
\* CannotCancelCapturedTransaction and changes nothing.
C10_CancelTransitions ==
    [][/\ \A i \in Refs :
            /\ (~is_cancelled(heap[i]) /\ is_cancelled(heap'[i]))
                 => (is_authorized(heap[i]) /\ ~has_captures(heap[i]))
            /\ is_cancelled(heap[i]) => is_cancelled(heap'[i])
       /\ (CallOn("cancel")
           /\ is_authorized(Addressed(result'.id))
           /\ has_captures(Addressed(result'.id)))
          => (result'.err = "CannotCancelCapturedTransaction"
              /\ UNCHANGED account)]_vars

\* C10 witness: one transaction was cancelled, and the cancel of a later one
\* that has a capture was refused.
C10_Witness ==
    /\ result.op = "cancel"
    /\ result.err = "CannotCancelCapturedTransaction"
    /\ \E i \in Refs : is_cancelled(heap[i])

\* C11: on a Cancelled transaction every capture fails with
\* CaptureNotAuthorized and every refund with CannotRefundMoreThanCaptured,
\* whatever the amount, and neither changes balance, authorized_amount or the
\* transaction's captures and refunds.
C11_CancelledIsFinal ==
    [][/\ (CallOn("capture") /\ is_cancelled(Addressed(result'.id)))
            => (result'.err = "CaptureNotAuthorized" /\ UNCHANGED account)
       /\ (CallOn("refund") /\ is_cancelled(Addressed(result'.id)))
            => (result'.err = "CannotRefundMoreThanCaptured"
                /\ UNCHANGED account)]_vars

\* C12: authorize(amount) fails with InvalidAmountError when amount < 0, else
\* with InsufficientFundsError when balance < amount, creating no transaction
\* and changing nothing; otherwise it moves amount from balance to
\* authorized_amount and stores exactly one new transaction, Authorized, of
\* that amount, with no captures and no refunds, under the id it returns.
C12_Authorize ==
    [][(CallMade /\ result'.op = "authorize")
         => LET amount == result'.amount IN
            IF amount < 0
            THEN result'.err = "InvalidAmountError" /\ UNCHANGED account
            ELSE IF balance < amount
            THEN result'.err = "InsufficientFundsError" /\ UNCHANGED account
            ELSE /\ result'.err = OK
                 /\ balance' = balance - amount
                 /\ authorized_amount' = authorized_amount + amount
                 /\ Len(heap') = Len(heap) + 1
                 /\ \A i \in Refs : heap'[i] = heap[i]
                 /\ result'.ret \in DOMAIN transactions'
                 /\ transactions'[result'.ret] = Len(heap')
                 /\ heap'[Len(heap')].amount = amount
                 /\ heap'[Len(heap')].id = result'.ret
                 /\ is_authorized(heap'[Len(heap')])
                 /\ heap'[Len(heap')].captures = <<>>
                 /\ heap'[Len(heap')].refunds = <<>>]_vars

\* C12 witness: an authorize of a positive amount was accepted on an account
\* that had a transaction already, after which the balance is exhausted.
C12_Witness ==
    /\ result.op = "authorize"
    /\ result.err = OK
    /\ result.amount > 0
    /\ Len(heap) > 1
    /\ balance = 0

\* C13: a successful capture leaves balance as it was and takes exactly its
\* amount off authorized_amount; so after one authorize followed only by
\* successful captures, authorized_amount is the authorized amount less the
\* captures, 0 once they sum to it.
C13_CaptureFrame ==
    [][/\ (CallMade /\ result'.op = "capture" /\ result'.err = OK)
            => /\ balance' = balance
               /\ authorized_amount' = authorized_amount - result'.amount
       /\ (Len(heap') = 1 /\ calls' = 1 + Len(heap'[1].captures))
            => /\ authorized_amount' = heap'[1].amount - Captured(heap'[1])
               /\ Captured(heap'[1]) = heap'[1].amount
                    => authorized_amount' = 0]_vars

\* C13 witness: two captures that together consume the whole hold.
C13_Witness ==
    /\ Len(heap) = 1
    /\ calls = 3
    /\ Len(heap[1].captures) = 2
    /\ \A k \in 1 .. 2 : heap[1].captures[k] > 0
    /\ Captured(heap[1]) = heap[1].amount
    /\ authorized_amount = 0
    /\ result.op = "capture"
    /\ balance = result.balance

\* C14: a successful refund adds exactly its amount to balance and leaves
\* authorized_amount, the transaction's status and its captures as they were;
\* a refund on a transaction with no captures fails and changes nothing.
C14_RefundFrame ==
    [][/\ (CallOn("refund") /\ result'.err = OK)
            => /\ balance' = balance + result'.amount
               /\ authorized_amount' = authorized_amount
               /\ Addressed(result'.id).status
                    = heap'[transactions[result'.id]].status
               /\ Addressed(result'.id).captures
                    = heap'[transactions[result'.id]].captures
       /\ (CallOn("refund") /\ ~has_captures(Addressed(result'.id)))
            => (result'.err # OK /\ UNCHANGED account)]_vars

\* C15: deposit and withdraw fail with InvalidAmountError when amount < 0,
\* withdraw fails with InsufficientFundsError when amount > balance, and a
\* failure changes nothing; otherwise deposit adds amount to balance and
\* withdraw takes it off (the whole balance included), and neither changes
\* authorized_amount or any transaction.
C15_DepositWithdraw ==
    [][/\ (CallMade /\ result'.op = "deposit")
            => IF result'.amount < 0
               THEN result'.err = "InvalidAmountError" /\ UNCHANGED account
               ELSE /\ result'.err = OK
                    /\ balance' = balance + result'.amount
                    /\ UNCHANGED <<authorized_amount, heap, transactions>>
       /\ (CallMade /\ result'.op = "withdraw")
            => IF result'.amount < 0
               THEN result'.err = "InvalidAmountError" /\ UNCHANGED account
               ELSE IF result'.amount > balance
               THEN result'.err = "InsufficientFundsError" /\ UNCHANGED account
               ELSE /\ result'.err = OK
                    /\ balance' = balance - result'.amount
                    /\ UNCHANGED <<authorized_amount, heap, transactions>>]_vars

\* C15 witness: the whole of a positive balance was withdrawn while a hold
\* was outstanding.
C15_Witness ==
    /\ result.op = "withdraw"
    /\ result.err = OK
    /\ result.amount > 0
    /\ result.amount = result.balance
    /\ balance = 0
    /\ authorized_amount > 0

\* The ids that authorize returns on any other Account: a Transaction built
\* there gets the same class default.
OtherAccountIds == {NewTransaction(amount).id : amount \in Amounts}
\* The ids that authorize has returned on this account.
IssuedHere == {heap[i].id : i \in Refs}

\* C17: capture, cancel and refund with an id that this account's authorize
\* never returned, or that another account's authorize returned, fail with a
\* not-found error (KeyError) and change nothing.
C17_ForeignIdNotFound ==
    [][(/\ CallMade
        /\ result'.op \in {"capture", "cancel", "refund"}
        /\ (result'.id \notin IssuedHere \/ result'.id \in OtherAccountIds))
         => (result'.err = "KeyError" /\ UNCHANGED account)]_vars

\* C18: Account.capture never raises InsufficientFundsError.
C18_ReduceHoldNeverFails ==
    ~(result.op = "capture" /\ result.err = "InsufficientFundsError")

\* C19: every Capture and every Refund recorded on a transaction has an
\* amount >= 0.
C19_RecordsNonNegative ==
    \A i \in Refs :
        /\ \A k \in 1 .. Len(heap[i].captures) : heap[i].captures[k] >= 0
        /\ \A k \in 1 .. Len(heap[i].refunds) : heap[i].refunds[k] >= 0

RECURSIVE Settled(_)
\* Captures less refunds, over all the transactions of h.
Settled(h) ==
    IF h = <<>> THEN 0
    ELSE Captured(Head(h)) - Refunded(Head(h)) + Settled(Tail(h))

Funds == balance + authorized_amount + Settled(heap)

\* C20: balance + authorized_amount + captures - refunds is the initial
\* balance plus the deposits less the withdrawals: it starts as the initial
\* balance, a successful deposit adds its amount, a successful withdraw takes
\* its amount off, and no other call changes it.
C20_Conservation ==
    [][CallMade =>
         Funds' = Funds
                  + (IF result'.op = "deposit" /\ result'.err = OK
                     THEN result'.amount ELSE 0)
                  - (IF result'.op = "withdraw" /\ result'.err = OK
                     THEN result'.amount ELSE 0)]_vars

\* ------------------------------------------------------------- serial runs
\* One call run alone on the account a, from its first statement to its
\* return or raise: the account it leaves, its outcome and, of a read, the
\* value returned.
Outcome(a, err) == [account |-> a, err |-> err, ret |-> 0]

Alone_balance(a) == [account |-> a, err |-> OK, ret |-> a.balance]

Alone_authorized_amount(a) ==
    [account |-> a, err |-> OK, ret |-> a.authorized_amount]

Alone_deposit(a, amount) ==
    IF amount < 0
    THEN Outcome(a, "InvalidAmountError")
    ELSE Outcome([a EXCEPT !.balance = @ + amount], OK)

Alone_withdraw(a, amount) ==
    IF amount < 0
    THEN Outcome(a, "InvalidAmountError")
    ELSE IF a.balance < amount
    THEN Outcome(a, "InsufficientFundsError")
    ELSE Outcome([a EXCEPT !.balance = @ - amount], OK)

Alone_authorize(a, amount) ==
    LET m == Account_authorize_amount(a.balance, a.authorized_amount, amount) IN
    IF m.err # OK
    THEN Outcome(a, m.err)
    ELSE LET n == Account_add_transaction(a.heap, a.transactions, amount) IN
         Outcome([balance |-> m.balance,
                  authorized_amount |-> m.authorized_amount,
                  heap |-> n.heap,
                  transactions |-> n.transactions], OK)

Alone_capture(a, id, amount) ==
    IF id \notin DOMAIN a.transactions
    THEN Outcome(a, "KeyError")
    ELSE LET ref == a.transactions[id]
             c == Transaction_capture(a.heap[ref], amount)
         IN IF c.err # OK
            THEN Outcome(a, c.err)
            ELSE LET r == Account_reduce_hold(a.authorized_amount, amount) IN
                 Outcome([a EXCEPT !.heap[ref] = c.tx,
                                   !.authorized_amount = r.authorized_amount],
                         r.err)

Alone_cancel(a, id) ==
    IF id \notin DOMAIN a.transactions
    THEN Outcome(a, "KeyError")
    ELSE LET ref == a.transactions[id]
             c == Transaction_cancel(a.heap[ref])
         IN IF c.err # OK
            THEN Outcome(a, c.err)
            ELSE Outcome([a EXCEPT !.heap[ref] = c.tx,
                                   !.balance = @ + c.tx.amount,
                                   !.authorized_amount = @ - c.tx.amount],
                         OK)

Alone_refund(a, id, amount) ==
    IF id \notin DOMAIN a.transactions
    THEN Outcome(a, "KeyError")
    ELSE LET ref == a.transactions[id]
             c == Transaction_refund(a.heap[ref], amount)
         IN IF c.err # OK
            THEN Outcome(a, c.err)
            ELSE Outcome([a EXCEPT !.heap[ref] = c.tx,
                                   !.balance = @ + amount], OK)

Alone(a, t) ==
    CASE t_op[t] = "deposit" -> Alone_deposit(a, t_amount[t])
      [] t_op[t] = "withdraw" -> Alone_withdraw(a, t_amount[t])
      [] t_op[t] = "authorize" -> Alone_authorize(a, t_amount[t])
      [] t_op[t] = "capture" -> Alone_capture(a, t_id[t], t_amount[t])
      [] t_op[t] = "cancel" -> Alone_cancel(a, t_id[t])
      [] t_op[t] = "refund" -> Alone_refund(a, t_id[t], t_amount[t])
      [] t_op[t] = "balance" -> Alone_balance(a)
      [] t_op[t] = "authorized_amount" -> Alone_authorized_amount(a)

\* Account(balance) as the threads found it.
Opened ==
    [balance |-> result.balance, authorized_amount |-> 0,
     heap |-> <<>>, transactions |-> <<>>]

RECURSIVE Serial(_)
\* The calls of the threads of ts run one after another, each alone: the
\* account they leave, the outcome of each and what each returned.
Serial(ts) ==
    IF ts = <<>>
    THEN [account |-> Opened, err |-> <<>>, ret |-> <<>>]
    ELSE LET before == Serial(SubSeq(ts, 1, Len(ts) - 1))
             last == Alone(before.account, ts[Len(ts)])
         IN [account |-> last.account,
             err |-> Append(before.err, last.err),
             ret |-> Append(before.ret, last.ret)]

Now == [balance |-> balance, authorized_amount |-> authorized_amount,
        heap |-> heap, transactions |-> transactions]

Reads == {"balance", "authorized_amount"}

Inside(t) == pc[t] \notin {"call", "done"}

\* C16: at most one thread is inside an operation and it holds the lock;
\* whenever no thread is inside, the account, every outcome and every value
\* read so far are those of the calls run one at a time in the order they
\* took the lock; a
\* thread that has returned or raised does not hold the lock, and while a
\* thread has not returned some thread can take a step.
C16_Serialised ==
    /\ \A t \in Threads, u \in Threads : (Inside(t) /\ Inside(u)) => t = u
    /\ \A t \in Threads : Inside(t) <=> lock = t
    /\ lock = 0 =>
          LET serial == Serial(order) IN
          /\ Now = serial.account
          /\ \A k \in 1 .. Len(order) :
                /\ t_err[order[k]] = serial.err[k]
                /\ t_op[order[k]] \in Reads =>
                      t_seen[order[k]] = serial.ret[k]
    /\ AllReturned \/ ENABLED NextThreads

\* C16 witness: all threads have returned; the first to take the lock
\* raised, the next authorized and the one after it read the hold.
C16_Witness ==
    /\ AllReturned
    /\ t_err[order[1]] # OK
    /\ t_op[order[2]] = "authorize" /\ t_err[order[2]] = OK
    /\ t_op[order[3]] = "authorized_amount" /\ t_seen[order[3]] = 1

====
